---------------------------- MODULE Spec2Model ----------------------------
(***************************************************************************)
(* CRA Mobile API: the alert store (database/db.py), the alert routes      *)
(* (api/routes.py) and the notification fan-out (utils/notifications.py).  *)
(*                                                                         *)
(* The table critical_alerts is a sequence of rows in rowid order.  A      *)
(* nullable column holds <<>> for SQL NULL and <<x>> for the value x.      *)
(* Timestamps are datetime.now() formatted to the second: the model's      *)
(* clock counts seconds, so two calls in the same second get equal         *)
(* timestamps, and the string order of the format is the order of the      *)
(* numbers.  The wall clock is taken not to run backwards.                 *)
(*                                                                         *)
(* SpecDb is the store used call by call (add_alert, close_alert,          *)
(* get_alerts, get_pending_alerts), each call one step.  Spec is the HTTP  *)
(* application: create_alert runs in a worker, step by step (add_alert,    *)
(* get_alerts, notify_new_alert), while other requests come in between.    *)
(*                                                                         *)
(* SpecStats adds get_alert_stats to the store.  SpecFanout is the         *)
(* registry and notify_new_alert used call by call, SpecRegistry the       *)
(* registry under requests that run concurrently, statement by statement.  *)
(* SpecClose is close_alert under concurrent requests.  SpecErrors has the *)
(* store's calls hit storage errors, SpecAuth is authenticate_user with    *)
(* its security-log write, SpecHttp the alert routes request by request.   *)
(***************************************************************************)
EXTENDS Integers, Sequences, FiniteSets, TLC

\* ------------------------------------------------------------------ bounds
MaxAlerts == 2
MaxClock == 1
MaxEvents == 2

Workers == {"w1", "w2"}

\* ------------------------------------------------------------ program data
USERS ==
  << [id |-> "EMP001", role |-> "sender"],
     [id |-> "EMP002", role |-> "receiver"],
     [id |-> "EMP003", role |-> "sender"],
     [id |-> "admin",  role |-> "admin"] >>

\* The identities a request can carry (a token is issued only for a USERS entry).
Callers == {USERS[i] : i \in {1, 2, 4}}

FileNumbers == {"F100"}
TestNames == {"Potassium", "Glucose"}
Values == {"7.2"}
Tokens == {"tok1"}

Null == <<>>
Some(x) == <<x>>

VARIABLES
  critical_alerts,  \* the table, rows in rowid order
  clock,            \* the wall clock, in seconds
  DEVICE_TOKENS,    \* the registry: a function from some user ids to a token
  Config,           \* which credentials the environment configures
  tieAsc,           \* how the engine orders rows of equal timestamp
  pc,               \* per worker: position in create_alert
  frame,            \* per worker: the locals of create_alert
  last,             \* the latest call that returned: its arguments and result
  transitions,      \* history: per alert id, the number of shown 0 -> 1 changes
  security_log,     \* the table security_log, rows in rowid order
  locals,           \* per worker: the locals of the call it is in
  effect            \* history: per user id or alert id, the write that took effect last

vars == << critical_alerts, clock, DEVICE_TOKENS, Config, tieAsc, pc, frame,
           last, transitions, security_log, locals, effect >>

\* ------------------------------------------------------------------ store
Min(a, b) == IF a < b THEN a ELSE b

RowSet(rows) == {rows[i] : i \in 1..Len(rows)}

\* Filtered without its WHERE clause
Filtered_NoWhere(rows, show_closed) == rows

\* WHERE shown = 0, unless closed alerts are asked for
Filtered(rows, show_closed) ==
  SelectSeq(rows, LAMBDA r : show_closed \/ r.shown = 0)

\* a comes before b under ORDER BY timestamp DESC; rows of equal timestamp
\* come in rowid order, ascending or descending as the engine has it
Before(a, b) ==
  \/ a.timestamp > b.timestamp
  \/ /\ a.timestamp = b.timestamp
     /\ IF tieAsc THEN a.id < b.id ELSE a.id > b.id

OrderByTimestampDesc(rows) ==
  LET S == RowSet(rows)
  IN  [i \in 1..Len(rows) |->
         CHOOSE r \in S : Cardinality({q \in S : Before(q, r)}) = i - 1]

\* LimitOffset taking the offset one page too far
LimitOffset_PageTooFar(rows, limit, offset) ==
  SubSeq(rows, offset + limit + 1, Min(offset + 2 * limit, Len(rows)))

\* LIMIT limit OFFSET offset
LimitOffset(rows, limit, offset) ==
  SubSeq(rows, offset + 1, Min(offset + limit, Len(rows)))

get_alerts(page, per_page, show_closed) ==
  LET f == Filtered(critical_alerts, show_closed)
  IN  << LimitOffset(OrderByTimestampDesc(f), per_page, (page - 1) * per_page),
         Len(f) >>

\* get_alerts_error still counting the rows
get_alerts_error_StaleCount == << <<>>, Len(critical_alerts) >>

\* the except branch of get_alerts
get_alerts_error == << <<>>, 0 >>

\* get_pending_alerts without its WHERE clause
get_pending_alerts_NoWhere == critical_alerts

\* SELECT * FROM critical_alerts WHERE shown = 0
get_pending_alerts == SelectSeq(critical_alerts, LAMBDA r : r.shown = 0)

\* NewRow binding test_name and value in the wrong order
NewRow_Swapped(file_number, test_name, value) ==
  [id |-> Len(critical_alerts) + 1,
   file_number |-> file_number, test_name |-> value, value |-> test_name,
   timestamp |-> clock, shown |-> 0, closed_by |-> Null, closed_at |-> Null]

\* INSERT ... VALUES (?, ?, ?, ?, 0): the new row, with the rowid the engine gives
NewRow(file_number, test_name, value) ==
  [id |-> Len(critical_alerts) + 1,
   file_number |-> file_number, test_name |-> test_name, value |-> value,
   timestamp |-> clock, shown |-> 0, closed_by |-> Null, closed_at |-> Null]

add_alert(file_number, test_name, value) ==
  Append(critical_alerts, NewRow(file_number, test_name, value))

\* CloseRow leaving closed_at as it was
CloseRow_NoClosedAt(r, user_id) ==
  [r EXCEPT !.shown = 1, !.closed_by = Some(user_id)]

\* CloseRow flipping shown
CloseRow_Toggle(r, user_id) ==
  [r EXCEPT !.shown = 1 - @, !.closed_by = Some(user_id), !.closed_at = Some(clock)]

\* CloseRow recording a fixed user
CloseRow_FixedUser(r, user_id) ==
  [r EXCEPT !.shown = 1, !.closed_by = Some("admin"), !.closed_at = Some(clock)]

\* CloseRow stamping the alert anew
CloseRow_Restamps(r, user_id) ==
  [r EXCEPT !.shown = 1, !.closed_by = Some(user_id), !.closed_at = Some(clock),
            !.timestamp = clock]

\* UPDATE ... SET shown = 1, closed_by = ?, closed_at = ? WHERE id = ?
CloseRow(r, user_id) ==
  [r EXCEPT !.shown = 1, !.closed_by = Some(user_id), !.closed_at = Some(clock)]

close_alert_InsertsMissing(alert_id, user_id) ==
  LET closed == [i \in 1..Len(critical_alerts) |->
                   IF critical_alerts[i].id = alert_id
                     THEN CloseRow(critical_alerts[i], user_id)
                     ELSE critical_alerts[i]]
  IN  IF \E i \in 1..Len(critical_alerts) : critical_alerts[i].id = alert_id
        THEN closed
        ELSE Append(closed, CloseRow([NewRow("F100", "Glucose", "450")
                                        EXCEPT !.id = alert_id], user_id))

close_alert(alert_id, user_id) ==
  [i \in 1..Len(critical_alerts) |->
     IF critical_alerts[i].id = alert_id
       THEN CloseRow(critical_alerts[i], user_id)
       ELSE critical_alerts[i]]


\* ---------------------------------------------------------- notifications
\* send_fcm_notification: what became of the push to user_id.  transportOk
\* is whether notify_single_device returns rather than raises.
FcmOutcome(user_id, transportOk) ==
  IF user_id \notin DOMAIN DEVICE_TOKENS \/ DEVICE_TOKENS[user_id] = ""
    THEN "no_token"
  ELSE IF ~Config.fcm THEN "no_key"
  ELSE IF ~transportOk THEN "error"
  ELSE "sent"

send_fcm_notification(user_id, transportOk) ==
  FcmOutcome(user_id, transportOk) = "sent"

\* send_whatsapp_alert: transportOk is whether messages.create returns
WhatsappOutcome(transportOk) ==
  IF ~Config.twilio THEN "unconfigured"
  ELSE IF ~transportOk THEN "error"
  ELSE "sent"

send_whatsapp_alert(transportOk) == WhatsappOutcome(transportOk) = "sent"

\* Receivers taking the admins in
Receivers_WithAdmin ==
  LET r == SelectSeq(USERS, LAMBDA u : u.role \in {"receiver", "admin"})
  IN  [i \in 1..Len(r) |-> r[i].id]

\* [user["id"] for user in USERS if user["role"] == "receiver"]
Receivers ==
  LET r == SelectSeq(USERS, LAMBDA u : u.role = "receiver")
  IN  [i \in 1..Len(r) |-> r[i].id]

\* PushLoop making no send
PushLoop_None(i, alert_data, net, acc) == acc

\* the for loop of notify_new_alert over receivers[i..]; acc carries
\* notification_sent and the log of the sends made so far
RECURSIVE PushLoop(_, _, _, _)
PushLoop(i, alert_data, net, acc) ==
  IF i > Len(Receivers) THEN acc
  ELSE LET receiver_id == Receivers[i]
           fcm_sent == send_fcm_notification(receiver_id, net.push[receiver_id])
           entry == [channel |-> "fcm", to |-> receiver_id,
                     alert_id |-> alert_data.id,
                     outcome |-> FcmOutcome(receiver_id, net.push[receiver_id])]
       IN  PushLoop(i + 1, alert_data, net,
                    [notification_sent |-> IF fcm_sent THEN TRUE
                                           ELSE acc.notification_sent,
                     sends |-> Append(acc.sends, entry)])

\* NotifyResult forgetting the push sends
NotifyResult_WhatsappOnly(pushed_any, whatsapp_sent) == whatsapp_sent

\* the last statement of notify_new_alert
NotifyResult(pushed_any, whatsapp_sent) ==
  IF whatsapp_sent THEN TRUE ELSE pushed_any

\* notify_new_alert trying WhatsApp only when no push went out
notify_new_alert_WhatsappIfNoPush(alert_data, net) ==
  LET pushed == PushLoop(1, alert_data, net,
                         [notification_sent |-> FALSE, sends |-> <<>>])
      entry == [channel |-> "whatsapp", to |-> "TWILIO_TO_WHATSAPP",
                alert_id |-> alert_data.id,
                outcome |-> WhatsappOutcome(net.whatsapp)]
  IN  IF pushed.notification_sent THEN pushed
      ELSE [notification_sent |-> send_whatsapp_alert(net.whatsapp),
            sends |-> Append(pushed.sends, entry)]

notify_new_alert(alert_data, net) ==
  LET pushed == PushLoop(1, alert_data, net,
                         [notification_sent |-> FALSE, sends |-> <<>>])
      whatsapp_sent == send_whatsapp_alert(net.whatsapp)
      entry == [channel |-> "whatsapp", to |-> "TWILIO_TO_WHATSAPP",
                alert_id |-> alert_data.id,
                outcome |-> WhatsappOutcome(net.whatsapp)]
  IN  [notification_sent |-> NotifyResult(pushed.notification_sent, whatsapp_sent),
       sends |-> Append(pushed.sends, entry)]

\* what the network does to one fan-out: per receiver and for the WhatsApp send
Nets ==
  [push : [{Receivers[i] : i \in 1..Len(Receivers)} -> BOOLEAN],
   whatsapp : BOOLEAN]

\* ------------------------------------------------------------------ state
\* a call and what it returned; op, then status, tell the shape of the rest
NoCall == [op |-> "none", caller |-> "", args |-> <<>>, status |-> 0, result |-> <<>>]

Call(op, caller, args, status, result) ==
  [op |-> op, caller |-> caller, args |-> args, status |-> status, result |-> result]

NoFrame == [payload |-> <<>>, alert_id |-> Null, alert_data |-> Null]

InitStore ==
  /\ critical_alerts = <<>>
  /\ clock = 0
  /\ tieAsc \in BOOLEAN
  /\ last = NoCall
  /\ transitions = << >>
  /\ pc = [w \in Workers |-> "idle"]
  /\ frame = [w \in Workers |-> NoFrame]
  /\ DEVICE_TOKENS = << >>
  /\ security_log = << >>
  /\ locals = [w \in Workers |-> Null]
  /\ effect = << >>

\* the environments the application is started in: the credentials of both
\* channels left at their default '', or all set
Environments == {[fcm |-> FALSE, twilio |-> FALSE], [fcm |-> TRUE, twilio |-> TRUE]}

\* the HTTP application: Config is read from the environment at import
Init ==
  /\ InitStore
  /\ Config \in Environments

\* the wall clock passes a second
Tick ==
  /\ clock < MaxClock
  /\ clock' = clock + 1
  /\ UNCHANGED << security_log, locals, effect, critical_alerts, DEVICE_TOKENS, Config, tieAsc, pc, frame,
                  last, transitions >>

Payloads == FileNumbers \X TestNames \X Values

\* the history of shown 0 -> 1 changes, after the table went from old to new
Count(old, new) ==
  [i \in 1..Len(new) |->
     IF i > Len(old) THEN 0
     ELSE transitions[i] + IF old[i].shown = 0 /\ new[i].shown = 1 THEN 1 ELSE 0]

\* ------------------------------------------------- the store, call by call
\* add_alert(file_number, test_name, value) returns the new rowid
AddAlert ==
  /\ Len(critical_alerts) < MaxAlerts
  /\ \E p \in Payloads :
       /\ critical_alerts' = add_alert(p[1], p[2], p[3])
       /\ last' = Call("add_alert", "", p, 0, Some(Len(critical_alerts')))
  /\ transitions' = Count(critical_alerts, critical_alerts')
  /\ UNCHANGED << security_log, locals, effect, clock, DEVICE_TOKENS, Config, tieAsc, pc, frame >>

\* add_alert hits a storage error and returns None, whatever its arguments
AddAlertFails ==
  /\ last' = Call("add_alert", "", <<>>, 0, Null)
  /\ UNCHANGED << security_log, locals, effect, critical_alerts, clock, DEVICE_TOKENS, Config, tieAsc, pc,
                  frame, transitions >>

CloseAlertIds == 1..MaxAlerts

\* the callers that are receivers: the fan-out of an alert reads their
\* registrations
DeviceOwners == {c \in Callers : c.role = "receiver"}

\* the callers that close alerts
Closers == {c \in Callers : c.role \in {"receiver", "admin"}}

\* the status mark_alert_closed answers
ClosedStatus(success) == IF success THEN 200 ELSE 500

\* close_alert(alert_id, user_id) returns True
CloseAlert ==
  /\ \E caller \in Closers, alert_id \in CloseAlertIds :
       /\ critical_alerts' = close_alert(alert_id, caller.id)
       /\ last' = Call("close_alert", caller.id, << alert_id, caller.id >>,
                       ClosedStatus(TRUE), TRUE)
  /\ transitions' = Count(critical_alerts, critical_alerts')
  /\ UNCHANGED << security_log, locals, effect, clock, DEVICE_TOKENS, Config, tieAsc, pc, frame >>

\* close_alert hits a storage error and returns False, whatever its arguments
CloseAlertFails ==
  /\ last' = Call("close_alert", "", <<>>, ClosedStatus(FALSE), FALSE)
  /\ UNCHANGED << security_log, locals, effect, critical_alerts, clock, DEVICE_TOKENS, Config, tieAsc, pc,
                  frame, transitions >>

Pages == 1..(MaxAlerts + 1)
PerPages == 1..2

\* get_alerts(page, per_page, show_closed)
GetAlerts ==
  /\ \E page \in Pages, per_page \in PerPages, show_closed \in BOOLEAN :
       last' = Call("get_alerts", "", << page, per_page, show_closed >>, 200,
                    get_alerts(page, per_page, show_closed))
  /\ UNCHANGED << security_log, locals, effect, critical_alerts, clock, DEVICE_TOKENS, Config, tieAsc, pc,
                  frame, transitions >>

\* get_alerts hits a storage error, whatever its arguments
GetAlertsFails ==
  /\ last' = Call("get_alerts", "", <<>>, 500, get_alerts_error)
  /\ UNCHANGED << security_log, locals, effect, critical_alerts, clock, DEVICE_TOKENS, Config, tieAsc, pc,
                  frame, transitions >>

\* get_pending_alerts()
GetPendingAlerts ==
  /\ last' = Call("get_pending_alerts", "", <<>>, 200, get_pending_alerts)
  /\ UNCHANGED << security_log, locals, effect, critical_alerts, clock, DEVICE_TOKENS, Config, tieAsc, pc,
                  frame, transitions >>

\* the store used call by call, one call at a time
InitDb ==
  /\ InitStore
  /\ Config = [fcm |-> FALSE, twilio |-> FALSE]

NextDb ==
  \/ Tick
  \/ AddAlert
  \/ AddAlertFails
  \/ CloseAlert
  \/ CloseAlertFails
  \/ GetAlerts
  \/ GetAlertsFails
  \/ GetPendingAlerts

SpecDb == InitDb /\ [][NextDb]_vars

\* ----------------------------------------------------- POST /api/alerts
\* the role check of create_alert rejects the caller
CreateForbidden(w) ==
  /\ pc[w] = "idle"
  /\ \E caller \in Callers :
       /\ caller.role \notin {"sender", "admin"}
       /\ last' = Call("create_alert", "", <<>>, 403, <<>>)
  /\ UNCHANGED << security_log, locals, effect, critical_alerts, clock, DEVICE_TOKENS, Config, tieAsc, pc,
                  frame, transitions >>

\* add_alert returns None and create_alert answers 500
CreateAddFails(w) ==
  /\ pc[w] = "idle"
  /\ \E caller \in Callers :
       /\ caller.role \in {"sender", "admin"}
       /\ last' = Call("create_alert", "", <<>>, 500, <<>>)
  /\ UNCHANGED << security_log, locals, effect, critical_alerts, clock, DEVICE_TOKENS, Config, tieAsc, pc,
                  frame, transitions >>

\* the JSON bodies of the create requests
RequestPayloads == {<< "F100", "Potassium", "7.2" >>}

\* add_alert inserts the row and returns its rowid
CreateAdd(w) ==
  /\ pc[w] = "idle"
  /\ Len(critical_alerts) < MaxAlerts
  /\ \E caller \in Callers, p \in RequestPayloads :
       /\ caller.role \in {"sender", "admin"}
       /\ critical_alerts' = add_alert(p[1], p[2], p[3])
       /\ frame' = [frame EXCEPT ![w] =
                      [payload |-> p, alert_id |-> Some(Len(critical_alerts')),
                       alert_data |-> Null]]
  /\ transitions' = Count(critical_alerts, critical_alerts')
  /\ pc' = [pc EXCEPT ![w] = "lookup"]
  /\ UNCHANGED << security_log, locals, effect, clock, DEVICE_TOKENS, Config, tieAsc, last >>

\* next((a for a in alerts if a['id'] == alert_id), None)
FindById(alerts, alert_id) ==
  LET hits == SelectSeq(alerts, LAMBDA a : Some(a.id) = alert_id)
  IN  IF hits = <<>> THEN Null ELSE Some(hits[1])

\* CreatedStatus failing the request when no notification went out
CreatedStatus_NeedsNotification(notification_sent) ==
  IF notification_sent = Some(TRUE) THEN 201 ELSE 500

\* the status create_alert answers once add_alert has returned an id
CreatedStatus(notification_sent) == 201

\* the request of worker w answers.  With the response go what the request
\* did: store_ok is whether its get_alerts ran without a storage error, calls
\* lists the arguments of its notify_new_alert calls, sends the sends these
\* made, notification_sent what notify_new_alert returned.
CreateResponse(w, store_ok, calls, sends, sent) ==
  Call("create_alert", "", frame[w].payload, CreatedStatus(sent),
       [id |-> frame[w].alert_id[1], store_ok |-> store_ok, calls |-> calls,
        sends |-> sends, notification_sent |-> sent])

\* alerts, _ = get_alerts(1, 1, False); alert_data = next(...)
\* and, when alert_data is None, the 201 response without a fan-out
CreateLookup(w) ==
  /\ pc[w] = "lookup"
  /\ \E ok \in BOOLEAN :
       LET res == IF ok THEN get_alerts(1, 1, FALSE) ELSE get_alerts_error
           alert_data == FindById(res[1], frame[w].alert_id)
       IN  IF alert_data # Null
             THEN /\ frame' = [frame EXCEPT ![w].alert_data = alert_data]
                  /\ pc' = [pc EXCEPT ![w] = "notify"]
                  /\ last' = last
             ELSE /\ frame' = [frame EXCEPT ![w] = NoFrame]
                  /\ pc' = [pc EXCEPT ![w] = "idle"]
                  /\ last' = CreateResponse(w, ok, <<>>, <<>>, Null)
  /\ UNCHANGED << security_log, locals, effect, critical_alerts, clock, DEVICE_TOKENS, Config, tieAsc,
                  transitions >>

\* if alert_data: notify_new_alert(alert_data); then the 201 response
CreateNotify(w) ==
  /\ pc[w] = "notify"
  /\ \E net \in Nets :
       LET r == notify_new_alert(frame[w].alert_data[1], net)
       IN  last' = CreateResponse(w, TRUE, << frame[w].alert_data[1] >>,
                                  r.sends, Some(r.notification_sent))
  /\ frame' = [frame EXCEPT ![w] = NoFrame]
  /\ pc' = [pc EXCEPT ![w] = "idle"]
  /\ UNCHANGED << security_log, locals, effect, critical_alerts, clock, DEVICE_TOKENS, Config, tieAsc,
                  transitions >>

\* ------------------------------------------- PUT /api/alerts/<id>/close
\* mark_alert_closed(alert_id), here by a receiver (the role is not checked):
\* close_alert(alert_id, caller id) returns True and the answer is 200
MarkAlertClosed ==
  /\ \E caller \in DeviceOwners, alert_id \in CloseAlertIds :
       critical_alerts' = close_alert(alert_id, caller.id)
  /\ transitions' = Count(critical_alerts, critical_alerts')
  /\ UNCHANGED << security_log, locals, effect, clock, DEVICE_TOKENS, Config, tieAsc, pc, frame, last >>

\* ------------------------------------------------------ /api/notifications
\* register_device keeping the token a user already has
register_device_KeepFirst(user_id, device_token) ==
  [u \in DOMAIN DEVICE_TOKENS \cup {user_id} |->
     IF u \in DOMAIN DEVICE_TOKENS THEN DEVICE_TOKENS[u] ELSE device_token]

\* DEVICE_TOKENS[user_id] = device_token
register_device(user_id, device_token) ==
  [u \in DOMAIN DEVICE_TOKENS \cup {user_id} |->
     IF u = user_id THEN device_token ELSE DEVICE_TOKENS[u]]

\* if user_id in DEVICE_TOKENS: del DEVICE_TOKENS[user_id]
unregister_device(user_id) ==
  [u \in DOMAIN DEVICE_TOKENS \ {user_id} |-> DEVICE_TOKENS[u]]

Register ==
  /\ \E caller \in DeviceOwners, device_token \in Tokens :
       DEVICE_TOKENS' = register_device(caller.id, device_token)
  /\ UNCHANGED << security_log, locals, effect, critical_alerts, clock, Config, tieAsc, pc, frame, last,
                  transitions >>

Unregister ==
  /\ \E caller \in DeviceOwners :
       DEVICE_TOKENS' = unregister_device(caller.id)
  /\ UNCHANGED << security_log, locals, effect, critical_alerts, clock, Config, tieAsc, pc, frame, last,
                  transitions >>

Next ==
  \/ Tick
  \/ \E w \in Workers : CreateForbidden(w)
  \/ \E w \in Workers : CreateAddFails(w)
  \/ \E w \in Workers : CreateAdd(w)
  \/ \E w \in Workers : CreateLookup(w)
  \/ \E w \in Workers : CreateNotify(w)
  \/ MarkAlertClosed
  \/ Register
  \/ Unregister

Spec == Init /\ [][Next]_vars

\* --------------------------------- the registry and the fan-out, by call
UserIds == {USERS[i].id : i \in 1..Len(USERS)}

\* the tokens register_device is called with; the route turns '' down, the
\* function stores it
DeviceTokens == {"", "tok1", "tok2"}

\* register_device(user_id, device_token) returns True
RegisterDevice ==
  /\ \E user_id \in UserIds, device_token \in DeviceTokens :
       /\ DEVICE_TOKENS' = register_device(user_id, device_token)
       /\ last' = Call("register_device", user_id, << user_id, device_token >>,
                       200, TRUE)
  /\ UNCHANGED << security_log, locals, effect, critical_alerts, clock, Config,
                  tieAsc, pc, frame, transitions >>

\* unregister_device(user_id) returns True
UnregisterDevice ==
  /\ \E user_id \in UserIds :
       /\ DEVICE_TOKENS' = unregister_device(user_id)
       /\ last' = Call("unregister_device", user_id, << user_id >>, 200, TRUE)
  /\ UNCHANGED << security_log, locals, effect, critical_alerts, clock, Config,
                  tieAsc, pc, frame, transitions >>

\* the alerts notify_new_alert is called with: rows as add_alert stores them
AlertData == {NewRow(p[1], p[2], p[3]) : p \in RequestPayloads}

\* notify_new_alert(alert_data)
NotifyNewAlert ==
  /\ \E alert_data \in AlertData, net \in Nets :
       last' = Call("notify_new_alert", "", << alert_data >>, 0,
                    notify_new_alert(alert_data, net))
  /\ UNCHANGED << security_log, locals, effect, critical_alerts, clock,
                  DEVICE_TOKENS, Config, tieAsc, pc, frame, transitions >>

\* each credential of the environment set or left at its default ''
InitFanout ==
  /\ InitStore
  /\ Config \in [fcm : BOOLEAN, twilio : BOOLEAN]

NextFanout ==
  \/ RegisterDevice
  \/ UnregisterDevice
  \/ NotifyNewAlert

SpecFanout == InitFanout /\ [][NextFanout]_vars

\* ------------------------------ the registry under concurrent requests
\* f with the key k set to v
Put(f, k, v) == [x \in DOMAIN f \cup {k} |-> IF x = k THEN v ELSE f[x]]

\* the users and tokens of the concurrent requests
RaceUsers == {"EMP002", "admin"}
RaceTokens == {"tok1", "tok2"}

\* register_device(user_id, device_token): the assignment is one dict
\* operation; returns True
RegisterStore(w) ==
  /\ pc[w] = "idle"
  /\ \E user_id \in RaceUsers, device_token \in RaceTokens :
       /\ DEVICE_TOKENS' = register_device(user_id, device_token)
       /\ effect' = Put(effect, user_id, Some(device_token))
       /\ last' = Call("register_device", user_id, << user_id, device_token >>,
                       200, TRUE)
  /\ UNCHANGED << security_log, locals, critical_alerts, clock, Config, tieAsc,
                  pc, frame, transitions >>

\* unregister_device(user_id): if user_id in DEVICE_TOKENS; without an entry
\* the call returns True
UnregisterTest(w) ==
  /\ pc[w] = "idle"
  /\ \E user_id \in RaceUsers :
       IF user_id \in DOMAIN DEVICE_TOKENS
         THEN /\ pc' = [pc EXCEPT ![w] = "del"]
              /\ locals' = [locals EXCEPT ![w] = Some(user_id)]
              /\ last' = last
         ELSE /\ last' = Call("unregister_device", user_id, << user_id >>, 200, TRUE)
              /\ UNCHANGED << pc, locals >>
  /\ UNCHANGED << security_log, effect, critical_alerts, clock, DEVICE_TOKENS,
                  Config, tieAsc, frame, transitions >>

\* del DEVICE_TOKENS[user_id]; return True.  Without the entry the del
\* raises KeyError and the except branch returns False
UnregisterDel(w) ==
  /\ pc[w] = "del"
  /\ LET user_id == locals[w][1]
     IN  IF user_id \in DOMAIN DEVICE_TOKENS
           THEN /\ DEVICE_TOKENS' = unregister_device(user_id)
                /\ effect' = Put(effect, user_id, Null)
                /\ last' = Call("unregister_device", user_id, << user_id >>,
                                200, TRUE)
           ELSE /\ last' = Call("unregister_device", user_id, << user_id >>,
                                500, FALSE)
                /\ UNCHANGED << DEVICE_TOKENS, effect >>
  /\ pc' = [pc EXCEPT ![w] = "idle"]
  /\ locals' = [locals EXCEPT ![w] = Null]
  /\ UNCHANGED << security_log, critical_alerts, clock, Config, tieAsc, frame,
                  transitions >>

\* the answer of send_fcm_notification(user_id, ...) in worker w
FcmReturns(w, user_id, sent) ==
  /\ last' = Call("send_fcm_notification", user_id, << user_id >>, 0, sent)
  /\ pc' = [pc EXCEPT ![w] = "idle"]
  /\ locals' = [locals EXCEPT ![w] = Null]

\* send_fcm_notification: user_id not in DEVICE_TOKENS
FcmTest(w) ==
  /\ pc[w] = "idle"
  /\ \E user_id \in {Receivers[i] : i \in 1..Len(Receivers)} :
       IF user_id \notin DOMAIN DEVICE_TOKENS
         THEN FcmReturns(w, user_id, FALSE)
         ELSE /\ pc' = [pc EXCEPT ![w] = "fcm_get"]
              /\ locals' = [locals EXCEPT ![w] = Some(user_id)]
              /\ last' = last
  /\ UNCHANGED << security_log, effect, critical_alerts, clock, DEVICE_TOKENS,
                  Config, tieAsc, frame, transitions >>

\* send_fcm_notification: or not DEVICE_TOKENS[user_id] (KeyError without
\* the entry, caught), then the check of Config.FCM_API_KEY
FcmGet(w) ==
  /\ pc[w] = "fcm_get"
  /\ LET user_id == locals[w][1]
     IN  IF \/ user_id \notin DOMAIN DEVICE_TOKENS
            \/ DEVICE_TOKENS[user_id] = ""
            \/ ~Config.fcm
           THEN FcmReturns(w, user_id, FALSE)
           ELSE /\ pc' = [pc EXCEPT ![w] = "fcm_send"]
                /\ UNCHANGED << locals, last >>
  /\ UNCHANGED << security_log, effect, critical_alerts, clock, DEVICE_TOKENS,
                  Config, tieAsc, frame, transitions >>

\* send_fcm_notification: notify_single_device(registration_id =
\* DEVICE_TOKENS[user_id], ...) (KeyError without the entry, caught)
FcmSend(w) ==
  /\ pc[w] = "fcm_send"
  /\ LET user_id == locals[w][1]
     IN  IF user_id \notin DOMAIN DEVICE_TOKENS
           THEN FcmReturns(w, user_id, FALSE)
           ELSE \E transportOk \in BOOLEAN : FcmReturns(w, user_id, transportOk)
  /\ UNCHANGED << security_log, effect, critical_alerts, clock, DEVICE_TOKENS,
                  Config, tieAsc, frame, transitions >>

NextRegistry ==
  \/ \E w \in Workers : RegisterStore(w)
  \/ \E w \in Workers : UnregisterTest(w)
  \/ \E w \in Workers : UnregisterDel(w)
  \/ \E w \in Workers : FcmTest(w)
  \/ \E w \in Workers : FcmGet(w)
  \/ \E w \in Workers : FcmSend(w)

\* the registry used by requests that run concurrently
SpecRegistry == Init /\ [][NextRegistry]_vars

\* ------------------------------------ close_alert under concurrent requests
\* UpdateClosed without its WHERE clause
UpdateClosed_NoWhere(rows, alert_id, user_id, now) ==
  [i \in 1..Len(rows) |->
     [rows[i] EXCEPT !.shown = 1, !.closed_by = Some(user_id),
                     !.closed_at = Some(now)]]

\* UpdateClosed leaving a closed alert as it is
UpdateClosed_PendingOnly(rows, alert_id, user_id, now) ==
  [i \in 1..Len(rows) |->
     IF rows[i].id = alert_id /\ rows[i].shown = 0
       THEN [rows[i] EXCEPT !.shown = 1, !.closed_by = Some(user_id),
                            !.closed_at = Some(now)]
       ELSE rows[i]]

\* UPDATE critical_alerts SET shown = 1, closed_by = ?, closed_at = ?
\* WHERE id = ?, with the parameters (user_id, now, alert_id) of the call
UpdateClosed(rows, alert_id, user_id, now) ==
  [i \in 1..Len(rows) |->
     IF rows[i].id = alert_id
       THEN [rows[i] EXCEPT !.shown = 1, !.closed_by = Some(user_id),
                            !.closed_at = Some(now)]
       ELSE rows[i]]

\* the user whose close requests a worker serves
CloserOf == [w \in Workers |-> IF w = "w1" THEN "EMP002" ELSE "admin"]

\* close_alert(alert_id, user_id): now = datetime.now().strftime(...)
CloseNow(w) ==
  /\ pc[w] = "idle"
  /\ \E alert_id \in CloseAlertIds :
       locals' = [locals EXCEPT ![w] =
                    Some([alert_id |-> alert_id, user_id |-> CloserOf[w],
                          now |-> clock])]
  /\ pc' = [pc EXCEPT ![w] = "update"]
  /\ UNCHANGED << security_log, effect, critical_alerts, clock, DEVICE_TOKENS,
                  Config, tieAsc, frame, last, transitions >>

\* the statement and its commit, one write transaction; return True.  effect
\* keeps, per alert id that a call has written, the call that wrote last,
\* whether it was the first, and the closed_by it wrote over
CloseUpdate(w) ==
  /\ pc[w] = "update"
  /\ LET c == locals[w][1]
     IN  /\ critical_alerts' =
              UpdateClosed(critical_alerts, c.alert_id, c.user_id, c.now)
         /\ effect' =
              IF \E i \in 1..Len(critical_alerts) :
                   critical_alerts[i].id = c.alert_id
                THEN Put(effect, c.alert_id,
                         [user_id |-> c.user_id, now |-> c.now,
                          first |-> c.alert_id \notin DOMAIN effect,
                          over |-> (CHOOSE r \in RowSet(critical_alerts) :
                                      r.id = c.alert_id).closed_by])
                ELSE effect
         /\ last' = Call("close_alert", c.user_id, << c.alert_id, c.user_id >>,
                         ClosedStatus(TRUE), TRUE)
  /\ transitions' = Count(critical_alerts, critical_alerts')
  /\ pc' = [pc EXCEPT ![w] = "idle"]
  /\ locals' = [locals EXCEPT ![w] = Null]
  /\ UNCHANGED << security_log, clock, DEVICE_TOKENS, Config, tieAsc, frame >>

\* the statement meets a storage error (the database is locked by another
\* writer for longer than the timeout): nothing is written, return False
CloseUpdateFails(w) ==
  /\ pc[w] = "update"
  /\ last' = Call("close_alert", "", <<>>, ClosedStatus(FALSE), FALSE)
  /\ pc' = [pc EXCEPT ![w] = "idle"]
  /\ locals' = [locals EXCEPT ![w] = Null]
  /\ UNCHANGED << security_log, effect, critical_alerts, clock, DEVICE_TOKENS,
                  Config, tieAsc, frame, transitions >>

\* the store holds two pending alerts, filed in the second 0
InitClose ==
  /\ critical_alerts =
       << [id |-> 1, file_number |-> "F100", test_name |-> "Potassium",
           value |-> "7.2", timestamp |-> 0, shown |-> 0,
           closed_by |-> Null, closed_at |-> Null],
          [id |-> 2, file_number |-> "F100", test_name |-> "Glucose",
           value |-> "7.2", timestamp |-> 0, shown |-> 0,
           closed_by |-> Null, closed_at |-> Null] >>
  /\ transitions = << 0, 0 >>
  /\ clock = 0
  /\ tieAsc \in BOOLEAN
  /\ last = NoCall
  /\ pc = [w \in Workers |-> "idle"]
  /\ frame = [w \in Workers |-> NoFrame]
  /\ DEVICE_TOKENS = << >>
  /\ security_log = << >>
  /\ locals = [w \in Workers |-> Null]
  /\ effect = << >>
  /\ Config = [fcm |-> FALSE, twilio |-> FALSE]

NextClose ==
  \/ Tick
  \/ \E w \in Workers : CloseNow(w)
  \/ \E w \in Workers : CloseUpdate(w)
  \/ \E w \in Workers : CloseUpdateFails(w)

\* the store with close_alert calls that run concurrently
SpecClose == InitClose /\ [][NextClose]_vars

\* -------------------------------------- add_alert under concurrent requests
\* WriteLockFree with an engine that lets every connection write
WriteLockFree_NoLock(w) == TRUE

\* the engine lets one connection write at a time: no other worker holds a
\* write it has not committed
WriteLockFree(w) == \A v \in Workers \ {w} : pc[v] # "commit"

\* add_alert(file_number, test_name, value): timestamp = datetime.now(), the
\* INSERT, alert_id = cursor.lastrowid.  The row is in the transaction of
\* the worker, not yet in the table
AddInsert(w) ==
  /\ pc[w] = "idle"
  /\ WriteLockFree(w)
  /\ Len(critical_alerts) < MaxAlerts
  /\ \E p \in Payloads :
       locals' = [locals EXCEPT ![w] = Some(NewRow(p[1], p[2], p[3]))]
  /\ pc' = [pc EXCEPT ![w] = "commit"]
  /\ UNCHANGED << security_log, effect, critical_alerts, clock, DEVICE_TOKENS,
                  Config, tieAsc, frame, last, transitions >>

\* the INSERT waits for the writer until sqlite3.connect's timeout, raises
\* 'database is locked', and add_alert returns None
AddLocked(w) ==
  /\ pc[w] = "idle"
  /\ ~WriteLockFree(w)
  /\ last' = Call("add_alert", "", <<>>, 0, Null)
  /\ UNCHANGED << security_log, locals, effect, critical_alerts, clock,
                  DEVICE_TOKENS, Config, tieAsc, pc, frame, transitions >>

\* conn.commit(); return alert_id
AddCommit(w) ==
  /\ pc[w] = "commit"
  /\ LET row == locals[w][1]
     IN  /\ critical_alerts' = Append(critical_alerts, row)
         /\ last' = Call("add_alert", "",
                         << row.file_number, row.test_name, row.value >>, 0,
                         Some(row.id))
  /\ transitions' = Count(critical_alerts, critical_alerts')
  /\ pc' = [pc EXCEPT ![w] = "idle"]
  /\ locals' = [locals EXCEPT ![w] = Null]
  /\ UNCHANGED << security_log, effect, clock, DEVICE_TOKENS, Config, tieAsc,
                  frame >>

\* the commit raises: the transaction is rolled back, add_alert returns None
AddCommitFails(w) ==
  /\ pc[w] = "commit"
  /\ last' = Call("add_alert", "", <<>>, 0, Null)
  /\ pc' = [pc EXCEPT ![w] = "idle"]
  /\ locals' = [locals EXCEPT ![w] = Null]
  /\ UNCHANGED << security_log, effect, critical_alerts, clock, DEVICE_TOKENS,
                  Config, tieAsc, frame, transitions >>

NextAdd ==
  \/ Tick
  \/ \E w \in Workers : AddInsert(w)
  \/ \E w \in Workers : AddLocked(w)
  \/ \E w \in Workers : AddCommit(w)
  \/ \E w \in Workers : AddCommitFails(w)

\* the store with add_alert calls that run concurrently
SpecAdd == InitDb /\ [][NextAdd]_vars

\* ------------------------------------------------------------ statistics
\* the windows asked for: ?days=-1, ?days=0 and the default 30
Days == {-1, 0, 30}

\* datetime(timestamp) >= datetime('now', '-<days> days').  With days < 0 the
\* modifier reads '--N days', which is none: datetime() gives NULL and no
\* row passes.  now is the clock of the server, which keeps UTC.
InWindow(r, now, days) == days >= 0 /\ r.timestamp >= now - days * 86400

\* SELECT COUNT(*) ... WHERE <window>
CountTotal(rows, now, days) ==
  Len(SelectSeq(rows, LAMBDA r : InWindow(r, now, days)))

\* SELECT COUNT(*) ... WHERE shown = 1 AND <window>
CountClosed(rows, now, days) ==
  Len(SelectSeq(rows, LAMBDA r : r.shown = 1 /\ InWindow(r, now, days)))

\* Answered_Rows without the window
Answered_Rows_AnyTime(rows, now, days) ==
  SelectSeq(rows, LAMBDA r : r.shown = 1 /\ r.closed_at # Null)

\* the rows of SELECT AVG(...) WHERE shown = 1 AND closed_at IS NOT NULL AND <window>
Answered_Rows(rows, now, days) ==
  SelectSeq(rows, LAMBDA r : r.shown = 1 /\ r.closed_at # Null /\ InWindow(r, now, days))

\* the sum over rows[i..] of closed_at - timestamp, in seconds
RECURSIVE SumResponse(_, _)
SumResponse(rows, i) ==
  IF i > Len(rows) THEN 0
  ELSE rows[i].closed_at[1] - rows[i].timestamp + SumResponse(rows, i + 1)

\* round(avg_response_time, 2) with avg_response_time = AVG(...) or 0, in
\* hundredths of a minute: the mean of s seconds over n rows is 5s/3n
\* hundredths; a mean half way between two hundredths goes either way with
\* the floating point error of julianday()
AvgResponseTime(rows, now, days) ==
  LET a == Answered_Rows(rows, now, days)
      n == Len(a)
      s == SumResponse(a, 1)
  IN  IF n = 0 THEN {0}
      ELSE LET q == (5 * s) \div (3 * n)
               rem == (5 * s) % (3 * n)
           IN  IF 2 * rem < 3 * n THEN {q}
               ELSE IF 2 * rem > 3 * n THEN {q + 1}
               ELSE {q, q + 1}

\* SELECT test_name, COUNT(*) ... WHERE <window> GROUP BY test_name, as a dict
TestDistribution(rows, now, days) ==
  LET w == SelectSeq(rows, LAMBDA r : InWindow(r, now, days))
  IN  [t \in {w[i].test_name : i \in 1..Len(w)} |->
         Len(SelectSeq(w, LAMBDA r : r.test_name = t))]

\* PendingAlerts counting the window anew
PendingAlerts_AllInWindow(total_alerts, closed_alerts) == total_alerts

\* 'pending_alerts': total_alerts - closed_alerts
PendingAlerts(total_alerts, closed_alerts) == total_alerts - closed_alerts

\* the dict get_alert_stats returns; avg is the rounded mean, see AvgResponseTime
get_alert_stats(days, avg) ==
  LET total_alerts == CountTotal(critical_alerts, clock, days)
      closed_alerts == CountClosed(critical_alerts, clock, days)
  IN  [total_alerts |-> total_alerts,
       closed_alerts |-> closed_alerts,
       pending_alerts |-> PendingAlerts(total_alerts, closed_alerts),
       avg_response_time_minutes |-> avg,
       test_distribution |-> TestDistribution(critical_alerts, clock, days)]

\* the except branch of get_alert_stats
get_alert_stats_error ==
  [total_alerts |-> 0, closed_alerts |-> 0, pending_alerts |-> 0,
   avg_response_time_minutes |-> 0, test_distribution |-> << >>]

\* get_alert_stats(days)
GetAlertStats ==
  /\ \E days \in Days :
       \E avg \in AvgResponseTime(critical_alerts, clock, days) :
         last' = Call("get_alert_stats", "", << days >>, 200,
                      get_alert_stats(days, avg))
  /\ UNCHANGED << security_log, locals, effect, critical_alerts, clock,
                  DEVICE_TOKENS, Config, tieAsc, pc, frame, transitions >>

\* get_alert_stats hits a storage error, whatever its argument
GetAlertStatsFails ==
  /\ last' = Call("get_alert_stats", "", <<>>, 500, get_alert_stats_error)
  /\ UNCHANGED << security_log, locals, effect, critical_alerts, clock,
                  DEVICE_TOKENS, Config, tieAsc, pc, frame, transitions >>

\* the store and its statistics, one call at a time
NextStats ==
  \/ Tick
  \/ AddAlert
  \/ CloseAlert
  \/ GetAlertStats
  \/ GetAlertStatsFails

SpecStats == InitDb /\ [][NextStats]_vars

\* ------------------------------- get_alert_stats, statement by statement
\* get_alert_stats runs four SELECTs on one connection and opens no
\* transaction, so each statement reads the table as it is when it runs, and
\* 'now' anew.  locals[w] holds the values fetched so far; effect[w] is the
\* history of the call of w: the two counts, over its window, of every
\* table and clock there was since its first statement.

\* the worker whose GET /api/alerts/stats request is followed; the requests
\* of the others are the add_alert and close_alert calls that fall between
\* its statements
StatsWorkers == {"w1"}

\* the counts of a table at a clock, over a window
Counts(rows, now, days) ==
  << CountTotal(rows, now, days), CountClosed(rows, now, days) >>

\* the history of the calls in flight, after the table or the clock changed
Seen(rows, now) ==
  [w \in DOMAIN effect |->
     effect[w] \cup {Counts(rows, now, locals[w][1].days)}]

\* the first SELECT COUNT(*): total_alerts
StatsTotal(w) ==
  /\ pc[w] = "idle"
  /\ \E days \in Days :
       locals' = [locals EXCEPT ![w] =
                    Some([days |-> days,
                          total_alerts |-> CountTotal(critical_alerts, clock, days),
                          closed_alerts |-> 0,
                          avg |-> 0])]
  /\ pc' = [pc EXCEPT ![w] = "closed"]
  /\ effect' = Put(effect, w, {Counts(critical_alerts, clock, locals'[w][1].days)})
  /\ UNCHANGED << security_log, critical_alerts, clock, DEVICE_TOKENS, Config,
                  tieAsc, frame, last, transitions >>

\* the second SELECT COUNT(*): closed_alerts
StatsClosed(w) ==
  /\ pc[w] = "closed"
  /\ locals' = [locals EXCEPT ![w] =
                  Some([locals[w][1] EXCEPT !.closed_alerts =
                          CountClosed(critical_alerts, clock, locals[w][1].days)])]
  /\ pc' = [pc EXCEPT ![w] = "avg"]
  /\ UNCHANGED << security_log, effect, critical_alerts, clock, DEVICE_TOKENS,
                  Config, tieAsc, frame, last, transitions >>

\* SELECT AVG(...): avg_response_time
StatsAvg(w) ==
  /\ pc[w] = "avg"
  /\ \E avg \in AvgResponseTime(critical_alerts, clock, locals[w][1].days) :
       locals' = [locals EXCEPT ![w] = Some([locals[w][1] EXCEPT !.avg = avg])]
  /\ pc' = [pc EXCEPT ![w] = "distribution"]
  /\ UNCHANGED << security_log, effect, critical_alerts, clock, DEVICE_TOKENS,
                  Config, tieAsc, frame, last, transitions >>

\* SELECT test_name, COUNT(*) ..., conn.close() and the dict returned
StatsReturn(w) ==
  /\ pc[w] = "distribution"
  /\ LET c == locals[w][1]
     IN  last' = Call("get_alert_stats", "", << c.days >>, 200,
                      [total_alerts |-> c.total_alerts,
                       closed_alerts |-> c.closed_alerts,
                       pending_alerts |-> PendingAlerts(c.total_alerts, c.closed_alerts),
                       avg_response_time_minutes |-> c.avg,
                       test_distribution |->
                         TestDistribution(critical_alerts, clock, c.days)])
  /\ pc' = [pc EXCEPT ![w] = "idle"]
  /\ locals' = [locals EXCEPT ![w] = Null]
  /\ effect' = [x \in DOMAIN effect \ {w} |-> effect[x]]
  /\ UNCHANGED << security_log, critical_alerts, clock, DEVICE_TOKENS, Config,
                  tieAsc, frame, transitions >>

\* a statement of get_alert_stats raises: the except branch
StatsFails(w) ==
  /\ pc[w] # "idle"
  /\ last' = Call("get_alert_stats", "", <<>>, 500, get_alert_stats_error)
  /\ pc' = [pc EXCEPT ![w] = "idle"]
  /\ locals' = [locals EXCEPT ![w] = Null]
  /\ effect' = [x \in DOMAIN effect \ {w} |-> effect[x]]
  /\ UNCHANGED << security_log, critical_alerts, clock, DEVICE_TOKENS, Config,
                  tieAsc, frame, transitions >>

\* add_alert of another request, between two statements
OtherAddAlert ==
  /\ Len(critical_alerts) < MaxAlerts
  /\ \E p \in Payloads :
       /\ critical_alerts' = add_alert(p[1], p[2], p[3])
       /\ last' = Call("add_alert", "", p, 0, Some(Len(critical_alerts')))
  /\ transitions' = Count(critical_alerts, critical_alerts')
  /\ effect' = Seen(critical_alerts', clock)
  /\ UNCHANGED << security_log, locals, clock, DEVICE_TOKENS, Config, tieAsc,
                  pc, frame >>

\* close_alert of another request, between two statements
OtherCloseAlert ==
  /\ \E caller \in Closers, alert_id \in CloseAlertIds :
       /\ critical_alerts' = close_alert(alert_id, caller.id)
       /\ last' = Call("close_alert", caller.id, << alert_id, caller.id >>,
                       ClosedStatus(TRUE), TRUE)
  /\ transitions' = Count(critical_alerts, critical_alerts')
  /\ effect' = Seen(critical_alerts', clock)
  /\ UNCHANGED << security_log, locals, clock, DEVICE_TOKENS, Config, tieAsc,
                  pc, frame >>

\* a second passes while calls are in flight
OtherTick ==
  /\ clock < MaxClock
  /\ clock' = clock + 1
  /\ effect' = Seen(critical_alerts, clock')
  /\ UNCHANGED << security_log, locals, critical_alerts, DEVICE_TOKENS, Config,
                  tieAsc, pc, frame, last, transitions >>

NextSnapshot ==
  \/ OtherTick
  \/ OtherAddAlert
  \/ OtherCloseAlert
  \/ \E w \in StatsWorkers : StatsTotal(w)
  \/ \E w \in StatsWorkers : StatsClosed(w)
  \/ \E w \in StatsWorkers : StatsAvg(w)
  \/ \E w \in StatsWorkers : StatsReturn(w)
  \/ \E w \in StatsWorkers : StatsFails(w)

\* get_alert_stats calls with the store changing under them
SpecSnapshot == InitDb /\ [][NextSnapshot]_vars

\* ---------------------------------------------------- storage errors
\* the except branch of get_pending_alerts
get_pending_alerts_error == <<>>

\* get_pending_alerts hits a storage error
GetPendingAlertsFails ==
  /\ last' = Call("get_pending_alerts", "", <<>>, 500, get_pending_alerts_error)
  /\ UNCHANGED << security_log, locals, effect, critical_alerts, clock,
                  DEVICE_TOKENS, Config, tieAsc, pc, frame, transitions >>

\* log_security_event keeping the latest event only
log_security_event_KeepsLast(event_type, user_id, details) ==
  << [event_type |-> event_type, user_id |-> user_id, timestamp |-> clock,
      details |-> details] >>

\* INSERT INTO security_log (event_type, user_id, timestamp, details)
log_security_event(event_type, user_id, details) ==
  Append(security_log,
         [event_type |-> event_type, user_id |-> user_id, timestamp |-> clock,
          details |-> details])

\* log_security_event hits a storage error and returns False, whatever its
\* arguments
LogSecurityEventFails ==
  /\ last' = Call("log_security_event", "", <<>>, 500, FALSE)
  /\ UNCHANGED << security_log, locals, effect, critical_alerts, clock,
                  DEVICE_TOKENS, Config, tieAsc, pc, frame, transitions >>

\* the store with calls that succeed and calls that hit a storage error
NextErrors ==
  \/ AddAlert
  \/ AddAlertFails
  \/ CloseAlert
  \/ CloseAlertFails
  \/ GetPendingAlertsFails
  \/ GetAlertsFails
  \/ GetAlertStatsFails
  \/ LogSecurityEventFails

SpecErrors == InitDb /\ [][NextErrors]_vars

\* ------------------------------------------------------ authentication
INITIAL_PASSWORDS ==
  [u \in UserIds |->
     CASE u = "EMP001" -> "1234"
       [] u = "EMP002" -> "abcd"
       [] u = "EMP003" -> "lab123"
       [] u = "admin" -> "admin123"]

\* bcrypt.hashpw: the hash of a password, told apart from the hash of any
\* other (the passwords here are short: bcrypt reads 72 bytes)
hash_password(password) == [bcrypt |-> password]

\* bcrypt.checkpw
check_password(password, hashed_password) ==
  hash_password(password) = hashed_password

\* user["password_hash"] once initialize_user_passwords has run
password_hash(user) == hash_password(INITIAL_PASSWORDS[user.id])

\* what authenticate_user decides: the user it returns (or None) and the
\* event it logs
AuthDecision(user_id, password, required_role) ==
  LET hits == SelectSeq(USERS, LAMBDA user : user.id = user_id)
  IN  IF hits = <<>>
        THEN [user |-> Null, event_type |-> "login_failure",
              details |-> "User not found"]
      ELSE IF ~check_password(password, password_hash(hits[1]))
        THEN [user |-> Null, event_type |-> "login_failure",
              details |-> "Invalid password"]
      ELSE IF \/ required_role = Null
              \/ Some(hits[1].role) = required_role
              \/ hits[1].role = "admin"
        THEN [user |-> Some(hits[1]), event_type |-> "login_success",
              details |-> ""]
      ELSE [user |-> Null, event_type |-> "login_failure",
            details |-> "Insufficient role"]

\* AfterLog giving up the login when the event was not logged
AfterLog_NoneOnLogFailure(user, logged) == IF logged THEN user ELSE Null

\* log_security_event(...) returned logged; the statement after it returns
\* user, and the log's return value is dropped
AfterLog(user, logged) == user

\* authenticate_user(user_id, password, required_role) when its
\* log_security_event call returns logged
authenticate_user(user_id, password, required_role, logged) ==
  AfterLog(AuthDecision(user_id, password, required_role).user, logged)

\* the logins tried
LoginIds == {"EMP001", "EMP002", "admin", "nobody"}
Passwords == {"1234", "abcd", "admin123", "wrong"}
RequiredRoles == {Null, Some("receiver")}

\* authenticate_user(user_id, password, required_role); its one
\* log_security_event call writes the event or hits a storage error
Authenticate ==
  /\ \E user_id \in LoginIds, password \in Passwords,
        required_role \in RequiredRoles, logged \in BOOLEAN :
       LET d == AuthDecision(user_id, password, required_role)
       IN  /\ logged => Len(security_log) < MaxEvents
           /\ security_log' =
                IF logged THEN log_security_event(d.event_type, user_id, d.details)
                ELSE security_log
           /\ last' = Call("authenticate_user", user_id,
                           << user_id, password, required_role >>, 0,
                           [user |-> authenticate_user(user_id, password,
                                                       required_role, logged),
                            logged |-> logged])
  /\ UNCHANGED << locals, effect, critical_alerts, clock, DEVICE_TOKENS,
                  Config, tieAsc, pc, frame, transitions >>

NextAuth == Authenticate

SpecAuth == InitDb /\ [][NextAuth]_vars

\* ------------------------------------- the alert routes, request by request
\* CanCreate letting every role file alerts
CanCreate_AnyRole(role) == TRUE

\* create_alert: current_user.get('role') in ['sender', 'admin']
CanCreate(role) == role \in {"sender", "admin"}

\* get_pending: current_user.get('role') in ['receiver', 'admin']
CanListPending(role) == role \in {"receiver", "admin"}

\* get_stats: current_user.get('role') == 'admin'
CanGetStats(role) == role = "admin"

\* the bodies of the create requests: the JSON fields, or none
Bodies == RequestPayloads \cup {<<>>}

\* what a create_alert request answers, with what it did: the arguments of
\* its notify_new_alert calls and the sends these made
HttpCreated(caller, body, status, calls, sends) ==
  Call("create_alert", caller.id, body, status,
       [calls |-> calls, sends |-> sends])

\* POST /api/alerts, the whole handler.  add_ok and store_ok are whether
\* add_alert and get_alerts run without a storage error
HttpCreateAlert ==
  \E caller \in Callers, body \in Bodies, add_ok \in BOOLEAN,
     store_ok \in BOOLEAN, net \in Nets :
    /\ UNCHANGED << security_log, locals, effect, clock, DEVICE_TOKENS, Config,
                    tieAsc, pc, frame >>
    /\ IF ~CanCreate(caller.role)
         THEN /\ last' = HttpCreated(caller, body, 403, <<>>, <<>>)
              /\ UNCHANGED << critical_alerts, transitions >>
       ELSE IF body = <<>>
         THEN /\ last' = HttpCreated(caller, body, 400, <<>>, <<>>)
              /\ UNCHANGED << critical_alerts, transitions >>
       ELSE IF ~add_ok
         THEN /\ last' = HttpCreated(caller, body, 500, <<>>, <<>>)
              /\ UNCHANGED << critical_alerts, transitions >>
       ELSE /\ Len(critical_alerts) < MaxAlerts
            /\ critical_alerts' = add_alert(body[1], body[2], body[3])
            /\ transitions' = Count(critical_alerts, critical_alerts')
            /\ LET alert_id == Some(Len(critical_alerts'))
                   res == IF store_ok THEN get_alerts(1, 1, FALSE)'
                          ELSE get_alerts_error
                   alert_data == FindById(res[1], alert_id)
               IN  IF alert_data # Null
                     THEN last' = HttpCreated(caller, body, CreatedStatus(Null),
                                    << alert_data[1] >>,
                                    notify_new_alert(alert_data[1], net).sends)
                     ELSE last' = HttpCreated(caller, body, CreatedStatus(Null),
                                    <<>>, <<>>)

\* GET /api/alerts/pending
HttpGetPending ==
  /\ \E caller \in Callers :
       last' = IF ~CanListPending(caller.role)
                 THEN Call("get_pending", caller.id, <<>>, 403, <<>>)
                 ELSE Call("get_pending", caller.id, <<>>, 200, get_pending_alerts)
  /\ UNCHANGED << security_log, locals, effect, critical_alerts, clock,
                  DEVICE_TOKENS, Config, tieAsc, pc, frame, transitions >>

\* PUT /api/alerts/<alert_id>/close; ok is whether close_alert runs without
\* a storage error
HttpMarkAlertClosed ==
  /\ \E caller \in Callers, alert_id \in CloseAlertIds, ok \in BOOLEAN :
       /\ critical_alerts' = IF ok THEN close_alert(alert_id, caller.id)
                             ELSE critical_alerts
       /\ last' = Call("mark_alert_closed", caller.id, << alert_id >>,
                       ClosedStatus(ok), <<>>)
  /\ transitions' = Count(critical_alerts, critical_alerts')
  /\ UNCHANGED << security_log, locals, effect, clock, DEVICE_TOKENS, Config,
                  tieAsc, pc, frame >>

\* GET /api/alerts/stats
HttpGetStats ==
  /\ \E caller \in Callers, days \in Days :
       IF ~CanGetStats(caller.role)
         THEN last' = Call("get_stats", caller.id, << days >>, 403, <<>>)
         ELSE \E avg \in AvgResponseTime(critical_alerts, clock, days) :
                last' = Call("get_stats", caller.id, << days >>, 200,
                             get_alert_stats(days, avg))
  /\ UNCHANGED << security_log, locals, effect, critical_alerts, clock,
                  DEVICE_TOKENS, Config, tieAsc, pc, frame, transitions >>

NextHttp ==
  \/ HttpCreateAlert
  \/ HttpGetPending
  \/ HttpMarkAlertClosed
  \/ HttpGetStats

\* the alert routes, one request at a time
SpecHttp == Init /\ [][NextHttp]_vars

\* ================================================================ claims
Ids(rows) == {rows[i].id : i \in 1..Len(rows)}

\* SELECT * FROM critical_alerts WHERE id = alert_id
LookupIn(rows, alert_id) == SelectSeq(rows, LAMBDA r : r.id = alert_id)

Lookup(alert_id) == LookupIn(critical_alerts, alert_id)

Pending == {r \in RowSet(critical_alerts) : r.shown = 0}

ClosedOk ==
  /\ last.op = "close_alert"
  /\ last.result = TRUE
  /\ last.args[1] <= Len(critical_alerts)

AddedOk ==
  /\ last.op = "add_alert"
  /\ last.result # Null

GotAlerts ==
  /\ last.op = "get_alerts"
  /\ last.status = 200

\* C1: in every state reached by add_alert and close_alert calls, each stored
\* alert has closed_by and closed_at both null or both set, and shown = 1
\* exactly when both are set.
C1_ClosedFieldsTogether ==
  \A i \in 1..Len(critical_alerts) :
    LET r == critical_alerts[i]
    IN  /\ (r.closed_by = Null) <=> (r.closed_at = Null)
        /\ (r.shown = 1) <=> (r.closed_by # Null /\ r.closed_at # Null)

C1_Witness ==
  \E i, j \in 1..Len(critical_alerts) :
    /\ critical_alerts[i].shown = 1
    /\ critical_alerts[i].closed_by # Null
    /\ critical_alerts[j].shown = 0
    /\ critical_alerts[j].closed_at = Null

\* C2: no step takes an alert from shown = 1 back to shown = 0, and no alert
\* makes the change shown 0 -> 1 more than once (a close_alert on a closed
\* alert rewrites closed_by and closed_at but is no such change).
C2_ClosesOnceNeverReopens ==
  [][\A i \in 1..Len(critical_alerts) :
       /\ critical_alerts[i].shown = 1 => critical_alerts'[i].shown = 1
       /\ transitions'[i] <= 1]_vars

C2_Witness ==
  /\ ClosedOk
  /\ transitions[last.args[1]] = 1
  /\ critical_alerts[last.args[1]].shown = 1
  /\ critical_alerts[last.args[1]].closed_at[1] > critical_alerts[last.args[1]].timestamp

\* C6: right after close_alert(id, u) returned True for a stored alert, the
\* lookup of id shows shown = 1, closed_by = u and closed_at set, not before
\* the alert's timestamp.
C6_CloseThenLookup ==
  ClosedOk =>
    /\ Len(Lookup(last.args[1])) = 1
    /\ LET r == Lookup(last.args[1])[1]
       IN  /\ r.shown = 1
           /\ r.closed_by = Some(last.args[2])
           /\ r.closed_at # Null
           /\ r.closed_at[1] >= r.timestamp

C6_Witness ==
  /\ ClosedOk
  /\ Len(critical_alerts) = 2
  /\ LET r == Lookup(last.args[1])[1]
     IN  /\ r.closed_by = Some("EMP002")
         /\ r.closed_at[1] > r.timestamp

\* C7: right after add_alert(f, t, v) returned id N (no close in between),
\* the lookup of N gives one alert with file_number f, test_name t, value v,
\* shown = 0 and closed_by, closed_at null.
C7_AddThenLookup ==
  AddedOk =>
    /\ Len(Lookup(last.result[1])) = 1
    /\ LET r == Lookup(last.result[1])[1]
       IN  /\ r.file_number = last.args[1]
           /\ r.test_name = last.args[2]
           /\ r.value = last.args[3]
           /\ r.shown = 0
           /\ r.closed_by = Null
           /\ r.closed_at = Null

C7_Witness ==
  /\ AddedOk
  /\ last.result = Some(2)
  /\ last.args[2] = "Glucose"
  /\ critical_alerts[1].shown = 1

Max(a, b) == IF a > b THEN a ELSE b

\* items is what a listing by timestamp descending of the set F holds at the
\* positions offset + 1 .. offset + limit
IsSlice(items, F, limit, offset) ==
  /\ Len(items) = Max(0, Min(limit, Cardinality(F) - offset))
  /\ \A k \in 1..Len(items) :
       /\ items[k] \in F
       /\ Cardinality({q \in F : q.timestamp > items[k].timestamp}) <= offset + k - 1
       /\ offset + k <= Cardinality({q \in F : q.timestamp >= items[k].timestamp})
  /\ \A j, k \in 1..Len(items) : j < k =>
       /\ items[j].timestamp >= items[k].timestamp
       /\ items[j].id # items[k].id

C9_CountFollowsFilter ==
  GotAlerts =>
       IF last.args[3]
         THEN last.result[2] = Len(critical_alerts)
         ELSE /\ last.result[2] = Cardinality(Pending)
              /\ \A k \in 1..Len(last.result[1]) : last.result[1][k].shown = 0

C9_Witness ==
  /\ GotAlerts
  /\ last.args = << 1, 2, FALSE >>
  /\ Len(critical_alerts) = 2
  /\ Cardinality(Pending) = 1
  /\ last.result[2] = 1
  /\ Len(last.result[1]) = 1

\* C10: an alert just created is in get_pending_alerts(), which returns all
\* and only the alerts with shown = 0; right after close_alert(N, u) returned
\* True for a stored alert N, N is neither in get_pending_alerts() nor on any
\* page of get_alerts(show_closed = False), and it is on some page of
\* get_alerts(show_closed = True), with shown = 1.
C10_VisibilityFollowsLifecycle ==
  /\ AddedOk => last.result[1] \in Ids(get_pending_alerts)
  /\ last.op = "get_pending_alerts" => RowSet(last.result) = Pending
  /\ ClosedOk =>
       LET N == last.args[1]
       IN  /\ N \notin Ids(get_pending_alerts)
           /\ \A page \in Pages, per_page \in PerPages :
                N \notin Ids(get_alerts(page, per_page, FALSE)[1])
           /\ \A per_page \in PerPages : \E page \in Pages :
                \E r \in RowSet(get_alerts(page, per_page, TRUE)[1]) :
                  r.id = N /\ r.shown = 1

C10_Witness ==
  /\ ClosedOk
  /\ last.args[1] = 1
  /\ Len(critical_alerts) = 2
  /\ Ids(get_pending_alerts) = {2}
  /\ 1 \in Ids(get_alerts(2, 1, TRUE)[1])

\* a create_alert request answers after its add_alert returned an id
Answered ==
  /\ last.op = "create_alert"
  /\ last.status \notin {403, 500}

\* C3: every create_alert request whose add_alert returned an id has, by the
\* time it answers, called notify_new_alert exactly once, with the alert it
\* persisted (same id, file_number, test_name, value); stated here for the
\* requests that met no storage error.
C3_NotifiesItsAlertOnce ==
  (Answered /\ last.result.store_ok) =>
    /\ Len(last.result.calls) = 1
    /\ last.result.calls[1].id = last.result.id
    /\ last.result.calls[1].file_number = last.args[1]
    /\ last.result.calls[1].test_name = last.args[2]
    /\ last.result.calls[1].value = last.args[3]

\* C4: notify_new_alert returns True exactly when one of its sends (a push to
\* a receiver, or the WhatsApp send) went out, and False when every send
\* failed or none was attempted.
C4_ResultIsOrOfSends ==
  (Answered /\ last.result.notification_sent # Null) =>
    (last.result.notification_sent[1]
       <=> \E k \in 1..Len(last.result.sends) :
             last.result.sends[k].outcome = "sent")

C4_Witness ==
  /\ Answered
  /\ last.result.notification_sent = Some(TRUE)
  /\ \E k \in 1..Len(last.result.sends) :
       /\ last.result.sends[k].channel = "fcm"
       /\ last.result.sends[k].outcome = "sent"
  /\ \E k \in 1..Len(last.result.sends) :
       /\ last.result.sends[k].channel = "whatsapp"
       /\ last.result.sends[k].outcome = "error"

\* C5: a create_alert request whose add_alert persisted an alert answers 201
\* whatever notify_new_alert returned, the alert is then still stored with
\* the fields it was given, and the fan-out step leaves the table as it was.
C5_CreatedWhateverNotification ==
  [][/\ (last'.op = "create_alert" /\ last'.result # <<>>) =>
          /\ last'.status = 201
          /\ Len(LookupIn(critical_alerts', last'.result.id)) = 1
          /\ LET r == LookupIn(critical_alerts', last'.result.id)[1]
             IN  /\ r.file_number = last'.args[1]
                 /\ r.test_name = last'.args[2]
                 /\ r.value = last'.args[3]
     /\ \A w \in Workers :
          (pc[w] = "notify" /\ pc'[w] = "idle")
            => critical_alerts' = critical_alerts]_vars

C5_Witness ==
  /\ Answered
  /\ last.status = 201
  /\ last.result.notification_sent = Some(FALSE)
  /\ \E k \in 1..Len(last.result.sends) : last.result.sends[k].outcome = "error"
  /\ Lookup(last.result.id)[1].shown = 0

\* C11: every result of get_alert_stats has total_alerts = closed_alerts +
\* pending_alerts, the zeroed result of a storage error included; and for a
\* call that met no error, total_alerts is the number of stored alerts with
\* timestamp >= now - days and closed_alerts the number of those with
\* shown = 1.
C11_StatsAddUp ==
  [][(last'.op = "get_alert_stats" /\ critical_alerts' = critical_alerts
        /\ clock' = clock) =>
       /\ last'.result.total_alerts
            = last'.result.closed_alerts + last'.result.pending_alerts
       /\ last'.status = 200 =>
            LET W == {r \in RowSet(critical_alerts) :
                        r.timestamp >= clock - last'.args[1] * 86400}
            IN  /\ last'.result.total_alerts = Cardinality(W)
                /\ last'.result.closed_alerts
                     = Cardinality({r \in W : r.shown = 1})]_vars

C11_Witness ==
  /\ last.op = "get_alert_stats"
  /\ last.args = << 0 >>
  /\ Len(critical_alerts) = 2
  /\ critical_alerts[1].shown = 0
  /\ last.result.total_alerts = 1
  /\ last.result.closed_alerts = 1
  /\ last.result.pending_alerts = 0

Notified == last.op = "notify_new_alert"

\* the positions in sends of the sends on a channel
OnChannel(sends, channel) == {k \in 1..Len(sends) : sends[k].channel = channel}

\* C12: the users notify_new_alert makes a push send to are exactly the
\* users whose role is receiver: never an admin or a sender, whatever tokens
\* these have registered.
C12_PushesToReceiversOnly ==
  Notified =>
    {last.result.sends[k].to : k \in OnChannel(last.result.sends, "fcm")}
      = {USERS[i].id : i \in {j \in 1..Len(USERS) : USERS[j].role = "receiver"}}

C12_Witness ==
  /\ Notified
  /\ {"admin", "EMP001", "EMP002"} \subseteq DOMAIN DEVICE_TOKENS
  /\ DEVICE_TOKENS["admin"] = "tok1"
  /\ DEVICE_TOKENS["EMP001"] = "tok2"
  /\ \E k \in OnChannel(last.result.sends, "fcm") :
       last.result.sends[k].to = "EMP002" /\ last.result.sends[k].outcome = "sent"

\* C13: every call of notify_new_alert makes exactly one WhatsApp send, to
\* the configured destination, whatever became of the push sends, and
\* returns a boolean also when that send fails.
C13_OneWhatsappSend ==
  Notified =>
    /\ Cardinality(OnChannel(last.result.sends, "whatsapp")) = 1
    /\ \A k \in OnChannel(last.result.sends, "whatsapp") :
         last.result.sends[k].to = "TWILIO_TO_WHATSAPP"
    /\ last.result.notification_sent \in BOOLEAN

C13_Witness ==
  /\ Notified
  /\ \E k \in OnChannel(last.result.sends, "fcm") :
       last.result.sends[k].outcome = "sent"
  /\ \E k \in OnChannel(last.result.sends, "whatsapp") :
       last.result.sends[k].outcome = "error"
  /\ last.result.notification_sent = TRUE

\* a user with a token registered (an empty token is none)
HasToken(u) == u \in DOMAIN DEVICE_TOKENS /\ DEVICE_TOKENS[u] # ""

\* C14: notify_new_alert calls the push send once for each receiver; for a
\* receiver without a token the send is skipped, for a receiver with a token
\* it is made and succeeds or fails; whatever these outcomes, the WhatsApp
\* send comes after them and a boolean is returned.
C14_PushLoopRunsThrough ==
  Notified =>
    LET sends == last.result.sends
    IN  /\ \A i \in 1..Len(USERS) : USERS[i].role = "receiver" =>
             /\ Cardinality({k \in OnChannel(sends, "fcm") :
                               sends[k].to = USERS[i].id}) = 1
             /\ \A k \in OnChannel(sends, "fcm") : sends[k].to = USERS[i].id =>
                  IF HasToken(USERS[i].id)
                    THEN sends[k].outcome \in {"no_key", "error", "sent"}
                    ELSE sends[k].outcome = "no_token"
        /\ Len(sends) >= 1
        /\ sends[Len(sends)].channel = "whatsapp"
        /\ last.result.notification_sent \in BOOLEAN

C14_Witness ==
  /\ Notified
  /\ HasToken("EMP002")
  /\ \E k \in OnChannel(last.result.sends, "fcm") :
       last.result.sends[k].outcome = "error"
  /\ \E k \in OnChannel(last.result.sends, "whatsapp") :
       last.result.sends[k].outcome = "sent"

\* C15: the registry is a map from user ids to one token each; a step of
\* register_device(u, t) returns True and leaves u with the token t, a step
\* of unregister_device(u) returns True and leaves u without an entry, had
\* it one or not; both leave the entry of every other user as it was.
C15_RegistryUpsertAndRemove ==
  [][/\ last'.op \in {"register_device", "unregister_device"} =>
          /\ last'.result = TRUE
          /\ \A v \in UserIds \ {last'.args[1]} :
               /\ v \in DOMAIN DEVICE_TOKENS' <=> v \in DOMAIN DEVICE_TOKENS
               /\ v \in DOMAIN DEVICE_TOKENS => DEVICE_TOKENS'[v] = DEVICE_TOKENS[v]
     /\ last'.op = "register_device" =>
          /\ last'.args[1] \in DOMAIN DEVICE_TOKENS'
          /\ DEVICE_TOKENS'[last'.args[1]] = last'.args[2]
     /\ last'.op = "unregister_device" =>
          last'.args[1] \notin DOMAIN DEVICE_TOKENS'
     /\ DOMAIN DEVICE_TOKENS' \subseteq UserIds]_vars

C15_Witness ==
  /\ last.op = "register_device"
  /\ last.args = << "EMP002", "tok2" >>
  /\ DOMAIN DEVICE_TOKENS = {"EMP002", "admin"}
  /\ DEVICE_TOKENS["EMP002"] = "tok2"
  /\ DEVICE_TOKENS["admin"] = "tok1"

\* the registry holds, for each user, what the register or unregister that
\* took effect last on that user left
RegistryFollowsEffect ==
  \A u \in UserIds :
    IF u \in DOMAIN DEVICE_TOKENS
      THEN u \in DOMAIN effect /\ effect[u] = Some(DEVICE_TOKENS[u])
      ELSE u \in DOMAIN effect => effect[u] = Null

\* C16: under every interleaving of register_device, unregister_device and
\* send_fcm_notification calls, the registry holds for each user what the
\* register or unregister on that user that took effect last left, and every
\* register_device and unregister_device call returns True.
C16_RegistryRaceFree ==
  /\ RegistryFollowsEffect
  /\ last.op \in {"register_device", "unregister_device"} => last.result = TRUE

\* C17: whatever the interleaving of close_alert calls, every stored alert
\* that some call has written is closed with the closed_by and the closed_at
\* of one and the same call, the one that wrote it last; an alert no call
\* has written is pending: a call on another id leaves it alone.
C17_ClosesDoNotInterfere ==
  \A i \in 1..Len(critical_alerts) :
    LET r == critical_alerts[i]
    IN  IF r.id \in DOMAIN effect
          THEN /\ r.shown = 1
               /\ r.closed_by = Some(effect[r.id].user_id)
               /\ r.closed_at = Some(effect[r.id].now)
          ELSE /\ r.shown = 0
               /\ r.closed_by = Null
               /\ r.closed_at = Null

C17_Witness ==
  /\ Len(critical_alerts) = 2
  /\ \A w \in Workers : pc[w] = "idle"
  /\ clock = 1
  /\ 1 \in DOMAIN effect
  /\ ~effect[1].first
  /\ critical_alerts[1].closed_by = Some("EMP002")
  /\ critical_alerts[1].closed_at = Some(0)
  /\ critical_alerts[2].closed_by = Some("admin")
  /\ critical_alerts[2].closed_at = Some(1)

\* C18: a call that hits a storage error returns a value: add_alert None,
\* close_alert and log_security_event False, get_pending_alerts [],
\* get_alerts ([], 0), get_alert_stats the all-zero statistics; and a failed
\* add_alert or close_alert leaves the stored alerts as they were (add_alert
\* returns None exactly when it stored nothing).
C18_StorageErrorsAreResults ==
  [][/\ last'.op = "add_alert" =>
          (last'.result = Null <=> critical_alerts' = critical_alerts)
     /\ (last'.op = "close_alert" /\ last'.status = 500) =>
          /\ last'.result = FALSE
          /\ critical_alerts' = critical_alerts
     /\ (last'.op = "log_security_event" /\ last'.status = 500) =>
          /\ last'.result = FALSE
          /\ security_log' = security_log
     /\ (last'.op = "get_pending_alerts" /\ last'.status = 500) =>
          last'.result = <<>>
     /\ (last'.op = "get_alerts" /\ last'.status = 500) =>
          last'.result = << <<>>, 0 >>
     /\ (last'.op = "get_alert_stats" /\ last'.status = 500) =>
          /\ last'.result.total_alerts = 0
          /\ last'.result.closed_alerts = 0
          /\ last'.result.pending_alerts = 0
          /\ last'.result.avg_response_time_minutes = 0
          /\ DOMAIN last'.result.test_distribution = {}]_vars

C18_Witness ==
  /\ last.op = "get_alerts"
  /\ last.status = 500
  /\ last.result = << <<>>, 0 >>
  /\ Len(critical_alerts) = 2
  /\ critical_alerts[1].shown = 1
  /\ critical_alerts[2].shown = 0

\* C19: authenticate_user returns the same (the user, or None) whether its
\* security-log write succeeds or fails: what a call returned is what the
\* same call returns with the other outcome of the log write.
C19_LoginIgnoresLogFailure ==
  last.op = "authenticate_user" =>
    last.result.user = authenticate_user(last.args[1], last.args[2],
                                         last.args[3], ~last.result.logged)

C19_Witness ==
  /\ last.op = "authenticate_user"
  /\ ~last.result.logged
  /\ last.result.user # Null
  /\ last.result.user[1].id = "EMP002"
  /\ last.args[3] = Some("receiver")
  /\ Len(security_log) = 1
  /\ security_log[1].event_type = "login_failure"

\* the role of the user with this id
RoleOf(user_id) ==
  (CHOOSE u \in {USERS[i] : i \in 1..Len(USERS)} : u.id = user_id).role

\* C20: a request is answered 403 exactly when its caller's role is not one
\* the route takes: create alert takes sender and admin, list pending
\* receiver and admin, statistics admin, close alert every role; and a
\* request answered 403 leaves the stored alerts as they were, makes no
\* notify_new_alert call and no send, and returns no data.
C20_RolesCheckedFirst ==
  [][last'.op \in {"create_alert", "get_pending", "mark_alert_closed", "get_stats"} =>
       LET role == RoleOf(last'.caller)
       IN  /\ last'.op = "create_alert" =>
                /\ last'.status # 403 <=> role \in {"sender", "admin"}
                /\ last'.status = 403 =>
                     last'.result.calls = <<>> /\ last'.result.sends = <<>>
           /\ last'.op = "get_pending" =>
                /\ last'.status # 403 <=> role \in {"receiver", "admin"}
                /\ last'.status = 403 => last'.result = <<>>
           /\ last'.op = "get_stats" =>
                /\ last'.status # 403 <=> role = "admin"
                /\ last'.status = 403 => last'.result = <<>>
           /\ last'.op = "mark_alert_closed" => last'.status # 403
           /\ last'.status = 403 => critical_alerts' = critical_alerts]_vars

C20_Witness ==
  /\ last.op = "create_alert"
  /\ last.caller = "EMP002"
  /\ last.status = 403
  /\ last.args # <<>>
  /\ Len(critical_alerts) = 1
  /\ critical_alerts[1].closed_by = Some("EMP001")

\* worker w returns from a close_alert call in this step
ClosesIn(w) == pc[w] = "update" /\ pc'[w] = "idle"

\* C21: a close_alert(id, u2) call whose UPDATE finds the alert id closed
\* already returns True and leaves it with shown = 1, closed_by = u2 and
\* closed_at the time the call read, whoever closed it before.
C21_RecloseOverwrites ==
  [][\A w \in Workers :
       (ClosesIn(w) /\ last'.result = TRUE) =>
         LET c == locals[w][1]
         IN  \A i \in 1..Len(critical_alerts) :
               (critical_alerts[i].id = c.alert_id /\ critical_alerts[i].shown = 1) =>
                 /\ critical_alerts'[i].shown = 1
                 /\ critical_alerts'[i].closed_by = Some(c.user_id)
                 /\ critical_alerts'[i].closed_at = Some(c.now)]_vars

C21_Witness ==
  /\ last.op = "close_alert"
  /\ last.result = TRUE
  /\ last.args = << 1, "admin" >>
  /\ 1 \in DOMAIN effect
  /\ effect[1].over = Some("EMP002")
  /\ critical_alerts[1].shown = 1
  /\ critical_alerts[1].closed_by = Some("admin")
  /\ critical_alerts[1].closed_at = Some(1)
  /\ \A w \in Workers : pc[w] = "idle"

\* the columns fixed at insert
Fixed(r) == << r.id, r.file_number, r.test_name, r.value, r.timestamp >>

\* C22: no step removes a stored alert or changes its id, file_number,
\* test_name, value or timestamp; a stored alert changes only in a step of a
\* close_alert(id, u) that returns True, and then it is the alert with that
\* id; a step of add_alert, get_alerts or get_pending_alerts leaves every
\* stored alert as it was.
C22_FixedAtInsert ==
  [][/\ Len(critical_alerts') >= Len(critical_alerts)
     /\ \A i \in 1..Len(critical_alerts) :
          /\ Fixed(critical_alerts'[i]) = Fixed(critical_alerts[i])
          /\ critical_alerts'[i] # critical_alerts[i] =>
               /\ last'.op = "close_alert"
               /\ last'.result = TRUE
               /\ critical_alerts[i].id = last'.args[1]
     /\ (last' # last /\ last'.op \in {"add_alert", "get_alerts", "get_pending_alerts"}) =>
          \A i \in 1..Len(critical_alerts) :
            critical_alerts'[i] = critical_alerts[i]]_vars

C22_Witness ==
  /\ ClosedOk
  /\ last.args[1] = 2
  /\ Len(critical_alerts) = 2
  /\ critical_alerts[1].test_name = "Glucose"
  /\ critical_alerts[1].shown = 0
  /\ critical_alerts[2].test_name = "Potassium"
  /\ critical_alerts[2].timestamp = 0
  /\ critical_alerts[2].closed_at = Some(1)

\* C23: in every state the stored alerts have ids that differ and grow in
\* the order of insertion; and a successful add_alert has returned the id of
\* the row that holds its own arguments, an id greater than that of every
\* other stored alert, however the calls of concurrent requests interleave.
C23_IdsUniqueAndGrowing ==
  /\ \A i, j \in 1..Len(critical_alerts) :
       i < j => critical_alerts[i].id < critical_alerts[j].id
  /\ AddedOk =>
       /\ Len(Lookup(last.result[1])) = 1
       /\ LET r == Lookup(last.result[1])[1]
          IN  /\ << r.file_number, r.test_name, r.value >> = last.args
              /\ \A q \in RowSet(critical_alerts) : q # r => q.id < r.id

C23_Witness ==
  /\ AddedOk
  /\ last.result = Some(2)
  /\ last.args[2] = "Glucose"
  /\ Len(critical_alerts) = 2
  /\ critical_alerts[1].test_name = "Potassium"
  /\ critical_alerts[1].timestamp = critical_alerts[2].timestamp
  /\ critical_alerts[1].id = 1

\* C24: a get_alert_stats call that met no storage error returns
\* avg_response_time_minutes = 0 whenever no stored alert with timestamp >=
\* now - days has shown = 1 and a closed_at, the empty store included; and
\* every result, the one of a storage error included, carries a number that
\* is not negative, never a null.
C24_AvgZeroWithoutClosed ==
  [][(last'.op = "get_alert_stats" /\ critical_alerts' = critical_alerts
        /\ clock' = clock) =>
       /\ last'.result.avg_response_time_minutes \in Nat
       /\ last'.status = 200 =>
            LET W == {r \in RowSet(critical_alerts) :
                        r.timestamp >= clock - last'.args[1] * 86400}
            IN  (\A r \in W : ~(r.shown = 1 /\ r.closed_at # Null)) =>
                  last'.result.avg_response_time_minutes = 0]_vars

C24_Witness ==
  /\ last.op = "get_alert_stats"
  /\ last.status = 200
  /\ last.args = << 0 >>
  /\ clock = 1
  /\ Len(critical_alerts) = 1
  /\ critical_alerts[1].timestamp = 0
  /\ critical_alerts[1].shown = 1
  /\ critical_alerts[1].closed_at = Some(1)
  /\ last.result.avg_response_time_minutes = 0
  /\ last.result.closed_alerts = 0

\* C25: a close_alert call that returns True for an id no stored alert
\* carries leaves the table as it was, row for row, and is answered with
\* status 200 by the close endpoint; no call on such an id creates or
\* changes an alert.
C25_CloseOfMissingIdIsNoOp ==
  [][(last'.op = "close_alert" /\ last' # last) =>
       /\ last'.result = TRUE =>
            /\ last'.status = 200
            /\ last'.args[1] \notin Ids(critical_alerts) =>
                 /\ critical_alerts' = critical_alerts
                 /\ transitions' = transitions
       /\ last'.result = FALSE =>
            /\ last'.status = 500
            /\ critical_alerts' = critical_alerts]_vars

C25_Witness ==
  /\ last.op = "close_alert"
  /\ last.result = TRUE
  /\ last.status = 200
  /\ last.args[1] = 2
  /\ Len(critical_alerts) = 1
  /\ critical_alerts[1].id = 1
  /\ critical_alerts[1].shown = 0

\* C26: every result a get_alert_stats call returns without a storage error
\* has pending_alerts >= 0, and its total_alerts, closed_alerts and
\* pending_alerts are the counts of one of the tables there were, at its
\* clock, between the first statement of the call and its return.
C26_StatsReadOneSnapshot ==
  [][\A w \in StatsWorkers :
       (pc[w] = "distribution" /\ pc'[w] = "idle" /\ last'.status = 200) =>
         /\ last'.result.pending_alerts >= 0
         /\ \E m \in effect[w] :
              /\ last'.result.total_alerts = m[1]
              /\ last'.result.closed_alerts = m[2]
              /\ last'.result.pending_alerts = m[1] - m[2]]_vars

\* C27: the security log only grows, every event it holds staying as it was
\* written; and an authenticate_user call whose log write succeeds appends
\* exactly one event, for the user id it was given, of type login_success
\* when it returns a user and login_failure when it returns None.
C27_SecurityLogAppendOnly ==
  [][/\ Len(security_log') >= Len(security_log)
     /\ SubSeq(security_log', 1, Len(security_log)) = security_log
     /\ (last'.op = "authenticate_user" /\ security_log' # security_log) =>
          /\ last'.result.logged
          /\ Len(security_log') = Len(security_log) + 1
          /\ LET e == security_log'[Len(security_log')]
             IN  /\ e.user_id = last'.args[1]
                 /\ e.event_type = IF last'.result.user # Null
                                     THEN "login_success" ELSE "login_failure"
                 /\ e.event_type = "login_success" <=>
                      authenticate_user(last'.args[1], last'.args[2],
                                        last'.args[3], TRUE) # Null
     /\ (last'.op = "authenticate_user" /\ last' # last /\ last'.result.logged) =>
          security_log' # security_log]_vars

C27_Witness ==
  /\ last.op = "authenticate_user"
  /\ last.result.logged
  /\ last.result.user # Null
  /\ last.result.user[1].id = "admin"
  /\ Len(security_log) = 2
  /\ security_log[1].event_type = "login_failure"
  /\ security_log[1].user_id = "nobody"
  /\ security_log[2].event_type = "login_success"
  /\ security_log[2].user_id = "admin"

=============================================================================
